---- MODULE Spec2Model ----
\* A model of the BibTeX engine driver of crates/engine_bibtex/src/lib.rs:
\* BibtexEngine::process, bibtex_main, inner_bibtex_main, initialize and
\* get_the_top_level_aux_file_name, together with the module-level state the
\* driver resets and the files it opens and closes.
EXTENDS Integers, Sequences, FiniteSets, TLC

\* ---------------------------------------------------------------- bounds
Callers == {1, 2}
MaxRuns == 2          \* process() calls that take the lock, over all callers
MaxLines == 3         \* citation-list lines read in one run
MaxBstCmds == 2       \* style commands processed in one run
CapSlack == 1         \* how far above the asserted floor the capacities range
PrimeFloor == 128     \* lib.rs:160
MinPrintFloor == 3    \* lib.rs:162

\* ---------------------------------------------------------------- strings
\* A byte string is a sequence of one-character strings.
DotAux == <<".", "a", "u", "x">>
DotBlg == <<".", "b", "l", "g">>
DotBbl == <<".", "b", "b", "l">>
\* The aux arguments process() is called with; the second is the bare extension.
AuxNames == { <<"a">> \o DotAux, DotAux }

\* lib.rs:485-492: the scratch path is the name with its last bytes (the
\* presumed ".aux") overwritten by the extension.  Every name of AuxNames has at
\* least four bytes; a shorter one makes the slice arithmetic panic.
set_extension(name, extension) ==
    SubSeq(name, 1, Len(name) - Len(extension)) \o extension

\* ---------------------------------------------------------------- history
Spotless == "Spotless"
WarningIssued == "WarningIssued"
ErrorIssued == "ErrorIssued"
FatalError == "FatalError"
Histories == {Spotless, WarningIssued, ErrorIssued, FatalError}

HistDefault == [history |-> Spotless, err_count |-> 0]

mark_warning(h) ==
    IF h.history = Spotless THEN [history |-> WarningIssued, err_count |-> 1]
    ELSE IF h.history = WarningIssued THEN [h EXCEPT !.err_count = @ + 1]
    ELSE h

mark_error(h) ==
    IF h.history \in {Spotless, WarningIssued} THEN [history |-> ErrorIssued, err_count |-> 1]
    ELSE IF h.history = ErrorIssued THEN [h EXCEPT !.err_count = @ + 1]
    ELSE h

mark_fatal(h) == [h EXCEPT !.history = FatalError]

\* ---------------------------------------------------------------- outcome
\* BibtexOutcome and the result of process(): the discriminants of lib.rs:90-98.
OkSpotless == [ok |-> TRUE, outcome |-> "Spotless", rank |-> 0]
OkWarnings == [ok |-> TRUE, outcome |-> "Warnings", rank |-> 1]
OkErrors == [ok |-> TRUE, outcome |-> "Errors", rank |-> 2]
ErrFatal == [ok |-> FALSE, outcome |-> "unspecified fatal bibtex error", rank |-> -1]
ErrNul == [ok |-> FALSE, outcome |-> "NulError", rank |-> -1]
NoResult == [ok |-> FALSE, outcome |-> "none", rank |-> -1]

\* A slip in the match of lib.rs:149-154: warnings reported as errors.
OutcomeOfWarningsAsErrors(hist) ==
    CASE hist = Spotless -> OkSpotless
      [] hist = WarningIssued -> OkErrors
      [] hist = ErrorIssued -> OkErrors
      [] hist = FatalError -> ErrFatal

\* A slip in the match of lib.rs:149-154: a fatal error reported as errors.
OutcomeOfFatalAsErrors(hist) ==
    CASE hist = Spotless -> OkSpotless
      [] hist = WarningIssued -> OkWarnings
      [] hist = ErrorIssued -> OkErrors
      [] hist = FatalError -> OkErrors

\* lib.rs:149-154
OutcomeOf(hist) ==
    CASE hist = Spotless -> OkSpotless
      [] hist = WarningIssued -> OkWarnings
      [] hist = ErrorIssued -> OkErrors
      [] hist = FatalError -> ErrFatal

\* ---------------------------------------------------------------- capacities
\* The assertions with the string capacity left unchecked against the hash size.
CapacityAssertionsWithoutStringBound(b) ==
    /\ b.HASH_PRIME >= PrimeFloor
    /\ b.MAX_PRINT_LINE > b.MIN_PRINT_LINE
    /\ b.MIN_PRINT_LINE >= MinPrintFloor
    /\ b.MAX_PRINT_LINE < b.BUF_SIZE + 1
    /\ b.HASH_PRIME <= b.HASH_SIZE
    /\ b.MAX_CITES <= b.MAX_STRINGS

\* The capacities live in pool.rs, hash.rs, cite.rs and buffer.rs; lib.rs
\* constrains them with compile-time assertions only.  A build is any
\* assignment the assertions accept.
\* lib.rs:160-166
CapacityAssertions(b) ==
    /\ b.HASH_PRIME >= PrimeFloor
    /\ b.MAX_PRINT_LINE > b.MIN_PRINT_LINE
    /\ b.MIN_PRINT_LINE >= MinPrintFloor
    /\ b.MAX_PRINT_LINE < b.BUF_SIZE + 1
    /\ b.HASH_PRIME <= b.HASH_SIZE
    /\ b.MAX_STRINGS <= b.HASH_SIZE
    /\ b.MAX_CITES <= b.MAX_STRINGS

\* The built-in strings interned by pre_def_certain_strings, cut down to three:
\* the ".aux" extension, one citation-list command and the empty string.
PreDefs == <<
    [str |-> DotAux, ilk |-> "FileExt"],
    [str |-> <<"\\", "b", "i", "b", "s", "t", "y", "l", "e">>, ilk |-> "AuxCommand"],
    [str |-> << >>, ilk |-> "Text"] >>

\* The builds considered: a string capacity that the built-in strings all but
\* fill, one equal to the hash size and one above it; a hash prime at and
\* below its floor.
CandidateBuilds ==
    [ HASH_PRIME : {PrimeFloor - 1, PrimeFloor},
      HASH_SIZE : {PrimeFloor + CapSlack},
      MAX_STRINGS : {Len(PreDefs) + 1, PrimeFloor + CapSlack, PrimeFloor + CapSlack + 1},
      MAX_CITES : {Len(PreDefs)},
      MIN_PRINT_LINE : {MinPrintFloor - 1, MinPrintFloor},
      MAX_PRINT_LINE : {MinPrintFloor + 1},
      BUF_SIZE : {MinPrintFloor + 1} ]

Builds == {b \in CandidateBuilds : CapacityAssertions(b)}

\* ---------------------------------------------------------------- state
VARIABLES
    caps,     \* the build's capacities (fixed for the life of the process)
    lock,     \* the launcher's global lock: 0 when free, else the caller holding it
    runs,     \* process() calls that have taken the lock so far
    pc,       \* each caller's position in process()
    arg,      \* each caller's aux argument, as bytes without the NUL
    ctx,      \* each caller's Bibtex context (lib.rs:231-259)
    bridge,   \* each caller's CoreBridgeState: the handles the run has open
    out,      \* the messages each run has handed to the diagnostics sink
    res,      \* what inner_bibtex_main returned to bibtex_main
    hist,     \* what bibtex_main returned to process()
    result,   \* what process() returned to its caller
    work,     \* lines and style commands the run has consumed
    engine,   \* each caller's BibtexEngine: its configuration (lib.rs:114-116)
    asked,    \* whether min_crossrefs() was called on each engine, and the latest value
    mod       \* the process-wide module state reset_all() resets

vars == <<caps, lock, runs, pc, arg, ctx, bridge, out, res, hist, result, work,
          engine, asked, mod>>

\* The module-level state in the order reset_all() resets it (lib.rs:346-356).
\* buffer, cite, bibs, other, entries and global are kept as "has this run
\* touched it" flags: the driver never reads their contents.
ModDefault == [
    log |-> [stdout |-> FALSE, log_file |-> FALSE],
    pool |-> [pool_ptr |-> 0, str_ptr |-> 0, strs |-> << >>],
    history |-> HistDefault,
    buffer |-> FALSE,
    cite |-> FALSE,
    auxi |-> [ptr |-> 0, files |-> << >>],
    bibs |-> FALSE,
    hash |-> {},
    other |-> FALSE,
    entries |-> FALSE,
    global |-> FALSE ]

\* lib.rs:222-229
BibtexConfigDefault == [min_crossrefs |-> 2, verbose |-> FALSE]

\* lib.rs:262-291 (the fields the driver reads or writes)
BibtexNew(config) == [
    config |-> config,
    bst_file |-> FALSE,       \* Option<NonNull<PeekableInput>>: TRUE is Some
    bst_str |-> 0,
    bst_line_num |-> 0,
    bbl_file |-> FALSE,       \* *mut OutputHandle: FALSE is null
    bbl_line_num |-> 0,
    bib_seen |-> FALSE,
    bst_seen |-> FALSE,
    citation_seen |-> FALSE,
    s_aux_extension |-> 0 ]

\* The handles of one run: how many citation-list inputs are open, the state of
\* the log, result and style files, how often each was closed, and the files
\* whose opening was attempted, in order.
BridgeNew == [
    aux_open |-> 0, aux_closes |-> 0,
    log |-> "unopened", log_closes |-> 0,
    bbl |-> "unopened", bbl_closes |-> 0,
    bst |-> "unopened", bst_closes |-> 0,
    tried |-> << >> ]

WorkNew == [lines |-> 0, aux_cmds |-> 0, bst_cmds |-> 0, reset |-> FALSE,
            marks |-> HistDefault]

Init ==
    /\ caps \in Builds
    /\ lock = 0
    /\ runs = 0
    /\ pc = [c \in Callers |-> "idle"]
    /\ arg = [c \in Callers |-> << >>]
    /\ ctx = [c \in Callers |-> BibtexNew(BibtexConfigDefault)]
    /\ bridge = [c \in Callers |-> BridgeNew]
    /\ out = [c \in Callers |-> << >>]
    /\ res = [c \in Callers |-> "none"]
    /\ hist = [c \in Callers |-> "none"]
    /\ result = [c \in Callers |-> NoResult]
    /\ work = [c \in Callers |-> WorkNew]
    /\ engine = [c \in Callers |-> [config |-> BibtexConfigDefault]]
    /\ asked = [c \in Callers |-> [set |-> FALSE, value |-> 0]]
    /\ mod = ModDefault

\* ---------------------------------------------------------------- a run's view
\* The state one run works on: its own context, handles and messages, and the
\* shared module state.
Run(c) == [ctx |-> ctx[c], bridge |-> bridge[c], out |-> out[c],
           work |-> work[c], mod |-> mod]

Commit(c, r) ==
    /\ ctx' = [ctx EXCEPT ![c] = r.ctx]
    /\ bridge' = [bridge EXCEPT ![c] = r.bridge]
    /\ out' = [out EXCEPT ![c] = r.out]
    /\ work' = [work EXCEPT ![c] = r.work]
    /\ mod' = r.mod

NoName == << >>

\* write_logs writes to the console and the log, write_log_file to the log only.
write_logs(r, text, name, n) ==
    [r EXCEPT !.out = Append(@, [text |-> text, name |-> name, n |-> n, console |-> TRUE])]

write_log_file(r, text, name, n) ==
    [r EXCEPT !.out = Append(@, [text |-> text, name |-> name, n |-> n, console |-> FALSE])]

\* Each mark is applied to the module's history and, for comparison, to the
\* history this run would have if it had started from a clean one.
MarkWarning(r) ==
    [r EXCEPT !.mod.history = mark_warning(@), !.work.marks = mark_warning(@)]

MarkError(r) ==
    [r EXCEPT !.mod.history = mark_error(@), !.work.marks = mark_error(@)]

MarkFatal(r) ==
    [r EXCEPT !.mod.history = mark_fatal(@), !.work.marks = mark_fatal(@)]

get_history(r) == r.mod.history.history
err_count(r) == r.mod.history.err_count

sam_wrong_file_name_print(r, name) ==
    write_logs(r, "I couldn't open file name", name, 0)

print_overflow(r) ==
    MarkFatal(write_logs(r, "Sorry---you've exceeded BibTeX's", NoName, 0))

print_confusion(r) ==
    MarkFatal(write_logs(r, "---this can't happen", NoName, 0))

\* ---------------------------------------------------------------- string pool
\* intern(bytes, ilk): the entry with these bytes and this ilk if there is one;
\* otherwise a new entry, which shares the string id of an entry with the same
\* bytes under another ilk, or else takes the next id.  Running out of entries
\* or of ids is fatal.
lookup_str_insert(r, str, ilk) ==
    LET hash == r.mod.hash
        pool == r.mod.pool
        hit == {e \in hash : e.str = str /\ e.ilk = ilk}
        same == {e \in hash : e.str = str}
    IN  IF hit # {}
        THEN [r |-> r, err |-> FALSE, exists |-> TRUE,
              text |-> (CHOOSE e \in hit : TRUE).text]
        ELSE IF Cardinality(hash) >= caps.HASH_SIZE
        THEN [r |-> print_overflow(r), err |-> TRUE, exists |-> FALSE, text |-> 0]
        ELSE IF same # {}
        THEN LET id == (CHOOSE e \in same : TRUE).text
             IN  [r |-> [r EXCEPT !.mod.hash = @ \cup {[str |-> str, ilk |-> ilk, text |-> id]}],
                  err |-> FALSE, exists |-> FALSE, text |-> id]
        ELSE IF pool.str_ptr = caps.MAX_STRINGS
        THEN [r |-> print_overflow([r EXCEPT !.mod.pool.pool_ptr = @ + Len(str)]),
              err |-> TRUE, exists |-> FALSE, text |-> 0]
        ELSE [r |-> [r EXCEPT
                        !.mod.hash = @ \cup {[str |-> str, ilk |-> ilk, text |-> pool.str_ptr]},
                        !.mod.pool = [pool_ptr |-> pool.pool_ptr + Len(str),
                                      str_ptr |-> pool.str_ptr + 1,
                                      strs |-> Append(pool.strs, str)]],
              err |-> FALSE, exists |-> FALSE, text |-> pool.str_ptr]

\* The built-in strings are interned in order; the first failure ends it.
RECURSIVE PreDefFrom(_, _)
PreDefFrom(r, i) ==
    IF i > Len(PreDefs) THEN [r |-> r, ret |-> "Ok"]
    ELSE LET l == lookup_str_insert(r, PreDefs[i].str, PreDefs[i].ilk)
         IN  IF l.err THEN [r |-> l.r, ret |-> "ErrFatal"]
             ELSE PreDefFrom(IF i = 1 THEN [l.r EXCEPT !.ctx.s_aux_extension = l.text]
                             ELSE l.r, i + 1)

pre_def_certain_strings(r) == PreDefFrom(r, 1)

\* get_the_top_level_aux_file_name interning the name under the extension ilk.
get_the_top_level_aux_file_name_as_extension(r, aux_file_name, opens) ==
    LET path_blg == set_extension(aux_file_name, DotBlg)
        path_bbl == set_extension(aux_file_name, DotBbl)
        path_aux == set_extension(aux_file_name, DotAux)
        r0 == [r EXCEPT !.mod.auxi.ptr = 0,
                        !.bridge.tried = Append(@, aux_file_name)]
        r1 == [r0 EXCEPT !.bridge.aux_open = @ + 1,
                         !.mod.auxi.files = <<[at |-> 0, ln |-> 0]>>,
                         !.bridge.tried = Append(@, path_blg)]
        r2 == [r1 EXCEPT !.mod.log.log_file = TRUE,
                         !.bridge.log = "open",
                         !.bridge.tried = Append(@, path_bbl)]
        r3 == [r2 EXCEPT !.ctx.bbl_file = TRUE,
                         !.bridge.bbl = "open"]
        lookup == lookup_str_insert(r3, path_aux, "FileExt")
        r4 == [lookup.r EXCEPT !.mod.auxi.files[1].at = lookup.text]
    IN  IF ~opens.aux
        THEN [r |-> sam_wrong_file_name_print(r0, aux_file_name), ret |-> "Ok1"]
        ELSE IF ~opens.log
        THEN [r |-> sam_wrong_file_name_print(r1, path_blg), ret |-> "Ok1"]
        ELSE IF ~opens.bbl
        THEN [r |-> sam_wrong_file_name_print(r2, path_bbl), ret |-> "Ok1"]
        ELSE IF lookup.err
        THEN [r |-> lookup.r, ret |-> "ErrFatal"]
        ELSE IF lookup.exists
        THEN [r |-> print_confusion(
                        write_logs(r4, "Already encountered auxiliary file", NoName, 0)),
              ret |-> "ErrFatal"]
        ELSE [r |-> r4, ret |-> "Ok0"]

\* ---------------------------------------------------------------- initialization
\* lib.rs:474-535.  opens says which of the three opens the file service grants.
\* The return is "Ok0", "Ok1" or "ErrFatal".
get_the_top_level_aux_file_name(r, aux_file_name, opens) ==
    LET path_blg == set_extension(aux_file_name, DotBlg)
        path_bbl == set_extension(aux_file_name, DotBbl)
        path_aux == set_extension(aux_file_name, DotAux)
        r0 == [r EXCEPT !.mod.auxi.ptr = 0,
                        !.bridge.tried = Append(@, aux_file_name)]
        r1 == [r0 EXCEPT !.bridge.aux_open = @ + 1,
                         !.mod.auxi.files = <<[at |-> 0, ln |-> 0]>>,
                         !.bridge.tried = Append(@, path_blg)]
        r2 == [r1 EXCEPT !.mod.log.log_file = TRUE,
                         !.bridge.log = "open",
                         !.bridge.tried = Append(@, path_bbl)]
        r3 == [r2 EXCEPT !.ctx.bbl_file = TRUE,
                         !.bridge.bbl = "open"]
        lookup == lookup_str_insert(r3, path_aux, "AuxFile")
        r4 == [lookup.r EXCEPT !.mod.auxi.files[1].at = lookup.text]
    IN  IF ~opens.aux
        THEN [r |-> sam_wrong_file_name_print(r0, aux_file_name), ret |-> "Ok1"]
        ELSE IF ~opens.log
        THEN [r |-> sam_wrong_file_name_print(r1, path_blg), ret |-> "Ok1"]
        ELSE IF ~opens.bbl
        THEN [r |-> sam_wrong_file_name_print(r2, path_bbl), ret |-> "Ok1"]
        ELSE IF lookup.err
        THEN [r |-> lookup.r, ret |-> "ErrFatal"]
        ELSE IF lookup.exists
        THEN [r |-> print_confusion(
                        write_logs(r4, "Already encountered auxiliary file", NoName, 0)),
              ret |-> "ErrFatal"]
        ELSE [r |-> r4, ret |-> "Ok0"]

\* initialize() starting the string ids at 0.
initialize_from_zero(r, aux_file_name, opens) ==
    LET r0 == [r EXCEPT !.mod.pool.pool_ptr = 0,
                        !.mod.pool.str_ptr = 0,
                        !.ctx.bib_seen = FALSE,
                        !.ctx.bst_seen = FALSE,
                        !.ctx.citation_seen = FALSE,
                        !.mod.buffer = TRUE]
        pre == pre_def_certain_strings(r0)
    IN  IF pre.ret # "Ok" THEN pre
        ELSE get_the_top_level_aux_file_name(pre.r, aux_file_name, opens)

\* lib.rs:537-560
initialize(r, aux_file_name, opens) ==
    LET r0 == [r EXCEPT !.mod.pool.pool_ptr = 0,
                        !.mod.pool.str_ptr = 1,
                        !.ctx.bib_seen = FALSE,
                        !.ctx.bst_seen = FALSE,
                        !.ctx.citation_seen = FALSE,
                        !.mod.buffer = TRUE]
        pre == pre_def_certain_strings(r0)
    IN  IF pre.ret # "Ok" THEN pre
        ELSE get_the_top_level_aux_file_name(pre.r, aux_file_name, opens)

\* reset_all() with the call of history::reset() forgotten.
reset_all_keeping_history(m) ==
    [m EXCEPT !.log = ModDefault.log,
              !.pool = ModDefault.pool,
              !.buffer = ModDefault.buffer,
              !.cite = ModDefault.cite,
              !.auxi = ModDefault.auxi,
              !.bibs = ModDefault.bibs,
              !.hash = ModDefault.hash,
              !.other = ModDefault.other,
              !.entries = ModDefault.entries,
              !.global = ModDefault.global]

\* lib.rs:345-357
reset_all(m) ==
    [m EXCEPT !.log = ModDefault.log,
              !.pool = ModDefault.pool,
              !.history = ModDefault.history,
              !.buffer = ModDefault.buffer,
              !.cite = ModDefault.cite,
              !.auxi = ModDefault.auxi,
              !.bibs = ModDefault.bibs,
              !.hash = ModDefault.hash,
              !.other = ModDefault.other,
              !.entries = ModDefault.entries,
              !.global = ModDefault.global]

\* ---------------------------------------------------------------- process()
\* CoreBridgeLauncher::with_global_lock: the closure runs with the global mutex
\* held, and a caller waits while another holds it.
with_global_lock(c) == lock = 0 /\ lock' = c

\* process() running the closure without waiting for the lock.
process_without_lock(c) == lock' = c

\* lib.rs:145
process_lock(c) == with_global_lock(c)

\* The values min_crossrefs() is called with.
CrossrefValues == {BibtexConfigDefault.min_crossrefs, BibtexConfigDefault.min_crossrefs + 1}

\* The setter storing nothing.
min_crossrefs_dropping_value(e, value) == e

\* lib.rs:126-129
min_crossrefs(e, value) == [e EXCEPT !.config.min_crossrefs = value]

\* A call of min_crossrefs().  It borrows the engine mutably, as process() does,
\* so it cannot happen while the engine's own process() call is under way.
MinCrossrefs(c) ==
    /\ pc[c] \in {"idle", "returned"}
    /\ \E value \in CrossrefValues :
          /\ engine' = [engine EXCEPT ![c] = min_crossrefs(@, value)]
          /\ asked' = [asked EXCEPT ![c] = [set |-> TRUE, value |-> value]]
    /\ UNCHANGED <<caps, lock, runs, pc, arg, ctx, bridge, out, res, hist, result,
                   work, mod>>

\* lib.rs:138-147: the call of process() up to the creation of the context.
\* An aux argument with an interior NUL byte fails in CString::new, before the
\* lock is taken.
ProcessEnter(c) ==
    /\ pc[c] \in {"idle", "returned"}
    /\ \E name \in AuxNames, nul \in BOOLEAN :
          /\ hist' = [hist EXCEPT ![c] = "none"]
          /\ IF nul
             THEN /\ pc' = [pc EXCEPT ![c] = "returned"]
                  /\ result' = [result EXCEPT ![c] = ErrNul]
                  /\ UNCHANGED <<lock, runs, arg, ctx, bridge, out, work>>
             ELSE /\ runs < MaxRuns
                  /\ arg' = [arg EXCEPT ![c] = name]
                  /\ process_lock(c)
                  /\ runs' = runs + 1
                  /\ pc' = [pc EXCEPT ![c] = "main"]
                  /\ result' = [result EXCEPT ![c] = NoResult]
                  /\ ctx' = [ctx EXCEPT ![c] = BibtexNew(engine[c].config)]
                  /\ bridge' = [bridge EXCEPT ![c] = BridgeNew]
                  /\ out' = [out EXCEPT ![c] = << >>]
                  /\ work' = [work EXCEPT ![c] = WorkNew]
    /\ UNCHANGED <<engine, asked, caps, res, mod>>

\* lib.rs:359-360
ResetAll(c) ==
    /\ pc[c] = "main"
    /\ mod' = reset_all(mod)
    /\ work' = [work EXCEPT ![c].reset = TRUE]
    /\ pc' = [pc EXCEPT ![c] = "stdout"]
    /\ UNCHANGED <<engine, asked, caps, lock, runs, arg, ctx, bridge, out, res, hist, result>>

\* lib.rs:410-412
InitStandardOutput(c) ==
    /\ pc[c] = "stdout"
    /\ \E ok \in BOOLEAN :
          IF ok
          THEN /\ mod' = [mod EXCEPT !.log.stdout = TRUE]
               /\ pc' = [pc EXCEPT ![c] = "initialize"]
               /\ UNCHANGED res
          ELSE /\ res' = [res EXCEPT ![c] = "OkFatal"]
               /\ pc' = [pc EXCEPT ![c] = "matchres"]
               /\ UNCHANGED mod
    /\ UNCHANGED <<engine, asked, caps, lock, runs, arg, ctx, bridge, out, hist, result,
                   work>>

\* lib.rs:414-416
Initialize(c) ==
    /\ pc[c] = "initialize"
    /\ \E opens \in [aux : BOOLEAN, log : BOOLEAN, bbl : BOOLEAN] :
          LET i == initialize(Run(c), arg[c], opens)
          IN  /\ Commit(c, i.r)
              /\ CASE i.ret = "Ok0" ->
                        /\ pc' = [pc EXCEPT ![c] = "banner"]
                        /\ UNCHANGED res
                   [] i.ret = "Ok1" ->
                        /\ res' = [res EXCEPT ![c] = "OkFatal"]
                        /\ pc' = [pc EXCEPT ![c] = "matchres"]
                   [] i.ret = "ErrFatal" ->
                        /\ res' = [res EXCEPT ![c] = "ErrFatal"]
                        /\ pc' = [pc EXCEPT ![c] = "matchres"]
    /\ UNCHANGED <<engine, asked, caps, lock, runs, arg, hist, result>>

\* lib.rs:418-437: the banner, the capacities and the top-level file's name go to
\* the log, and to the console as well when the run is verbose.
Banner(c) ==
    /\ pc[c] = "banner"
    /\ LET r == Run(c)
           top == r.mod.pool.strs[r.mod.auxi.files[r.mod.auxi.ptr + 1].at]
           r1 == IF r.ctx.config.verbose
                 THEN write_logs(r, "This is BibTeX, Version 0.99d", NoName, 0)
                 ELSE write_log_file(r, "This is BibTeX, Version 0.99d", NoName, 0)
           r2 == write_log_file(r1, "Capacity: max_strings, hash_size, hash_prime",
                                NoName, caps.MAX_STRINGS)
           r3 == IF r.ctx.config.verbose
                 THEN write_logs(r2, "The top-level auxiliary file: ", top, 0)
                 ELSE write_log_file(r2, "The top-level auxiliary file: ", top, 0)
       IN  Commit(c, r3)
    /\ pc' = [pc EXCEPT ![c] = "auxloop"]
    /\ UNCHANGED <<engine, asked, caps, lock, runs, arg, res, hist, result>>

\* ---------------------------------------------------------------- citation list
BstName == <<"s", ".", "b", "s", "t">>
InputName == <<"b">> \o DotAux

AuxCmds ==
    [kind : {"citation", "bibdata", "malformed"}, name : {NoName}, open : {TRUE}]
    \cup [kind : {"bibstyle"}, name : {BstName}, open : BOOLEAN]
    \cup [kind : {"input"}, name : {InputName}, open : {TRUE}]

aux_err_print(r) ==
    MarkError(write_logs(r, "---line of file", NoName, 0))

\* \bibstyle: a second one is an error; the name is interned under the
\* style-file ilk and recorded in bst_str; a style file that cannot be opened
\* is an error that clears bst_str again.
aux_bib_style_command(r, cmd) ==
    LET seen == [r EXCEPT !.ctx.bst_seen = TRUE]
        lookup == lookup_str_insert(seen, cmd.name, "BstFile")
        named == [lookup.r EXCEPT !.ctx.bst_str = lookup.text]
    IN  IF r.ctx.bst_seen
        THEN [r |-> aux_err_print(write_logs(r, "Illegal, another \\bibstyle command",
                                              NoName, 0)),
              ret |-> "Ok"]
        ELSE IF lookup.err THEN [r |-> lookup.r, ret |-> "ErrFatal"]
        ELSE IF lookup.exists
        THEN [r |-> print_confusion(write_logs(named, "Already encountered style file",
                                                NoName, 0)),
              ret |-> "ErrFatal"]
        ELSE IF ~cmd.open
        THEN [r |-> aux_err_print(write_logs([named EXCEPT !.ctx.bst_str = 0],
                                              "I couldn't open style file", cmd.name, 0)),
              ret |-> "Ok"]
        ELSE [r |-> [named EXCEPT !.ctx.bst_file = TRUE, !.bridge.bst = "open"],
              ret |-> "Ok"]

\* \@input: the named citation-list file is interned under the citation-list
\* ilk and pushed on the file stack; a repeated or unopenable file is an error.
aux_input_command(r, cmd) ==
    LET lookup == lookup_str_insert(r, cmd.name, "AuxFile")
    IN  IF lookup.err THEN [r |-> lookup.r, ret |-> "ErrFatal"]
        ELSE IF lookup.exists
        THEN [r |-> aux_err_print(write_logs(lookup.r, "Already encountered file",
                                              cmd.name, 0)),
              ret |-> "Ok"]
        ELSE IF ~cmd.open
        THEN [r |-> aux_err_print(write_logs(lookup.r, "I couldn't open auxiliary file",
                                              cmd.name, 0)),
              ret |-> "Ok"]
        ELSE [r |-> [lookup.r EXCEPT
                        !.mod.auxi.ptr = @ + 1,
                        !.mod.auxi.files = Append(@, [at |-> lookup.text, ln |-> 0]),
                        !.bridge.aux_open = @ + 1],
              ret |-> "Ok"]

get_aux_command_and_process(r, cmd) ==
    CASE cmd.kind = "citation" ->
            [r |-> [r EXCEPT !.ctx.citation_seen = TRUE, !.mod.cite = TRUE], ret |-> "Ok"]
      [] cmd.kind = "bibdata" ->
            IF r.ctx.bib_seen
            THEN [r |-> aux_err_print(write_logs(r, "Illegal, another \\bibdata command",
                                                  NoName, 0)),
                  ret |-> "Ok"]
            ELSE [r |-> [r EXCEPT !.ctx.bib_seen = TRUE, !.mod.bibs = TRUE], ret |-> "Ok"]
      [] cmd.kind = "bibstyle" -> aux_bib_style_command(r, cmd)
      [] cmd.kind = "input" -> aux_input_command(r, cmd)
      [] cmd.kind = "malformed" -> [r |-> aux_err_print(r), ret |-> "Ok"]

\* lib.rs:440
NextLine(r) ==
    [r EXCEPT !.mod.auxi.files[r.mod.auxi.ptr + 1].ln = @ + 1, !.mod.buffer = TRUE]

\* lib.rs:442-445: the current citation-list file is at its end; it is closed
\* and popped, and the loop ends when it was the top-level one.
AuxEof(c) ==
    /\ pc[c] = "auxloop"
    /\ LET r == NextLine(Run(c))
           last == r.mod.auxi.ptr = 0
           popped == [r EXCEPT
                        !.bridge.aux_open = @ - 1,
                        !.bridge.aux_closes = @ + 1,
                        !.mod.auxi.files = SubSeq(@, 1, Len(@) - 1),
                        !.mod.auxi.ptr = IF last THEN 0 ELSE @ - 1]
       IN  /\ Commit(c, popped)
           /\ pc' = [pc EXCEPT ![c] = IF last THEN "lastcheck" ELSE "auxloop"]
    /\ UNCHANGED <<engine, asked, caps, lock, runs, arg, res, hist, result>>

\* lib.rs:446-448
AuxLine(c) ==
    /\ pc[c] = "auxloop"
    /\ work[c].lines < MaxLines
    /\ \E cmd \in AuxCmds :
          LET r == NextLine(Run(c))
              counted == [r EXCEPT !.work.lines = @ + 1, !.work.aux_cmds = @ + 1]
              g == get_aux_command_and_process(counted, cmd)
          IN  /\ Commit(c, g.r)
              /\ IF g.ret = "Ok"
                 THEN UNCHANGED <<pc, res>>
                 ELSE /\ res' = [res EXCEPT ![c] = g.ret]
                      /\ pc' = [pc EXCEPT ![c] = "matchres"]
    /\ UNCHANGED <<engine, asked, caps, lock, runs, arg, hist, result>>

\* The end-of-list check: each of a missing \citation, \bibdata and \bibstyle
\* command, and a style file that could not be opened, is an error.
aux_end_err_print(r, what) ==
    MarkError(write_logs(r, "I found no", what, 0))

last_check_for_aux_errors(r) ==
    LET r1 == IF ~r.ctx.citation_seen
              THEN aux_end_err_print(r, <<"\\citation commands">>) ELSE r
        r2 == IF ~r.ctx.bib_seen
              THEN aux_end_err_print(r1, <<"\\bibdata command">>) ELSE r1
        r3 == IF ~r.ctx.bst_seen
              THEN aux_end_err_print(r2, <<"\\bibstyle command">>)
              ELSE IF r.ctx.bst_str = 0
              THEN aux_end_err_print(r2, <<"style file">>) ELSE r2
    IN  r3

\* inner_bibtex_main going on to the style program without the test of bst_str.
LastCheckWithoutNoBst(c) ==
    /\ pc[c] = "lastcheck"
    /\ LET r == last_check_for_aux_errors(Run(c))
       IN  /\ Commit(c, [r EXCEPT !.ctx.bst_line_num = 0,
                                  !.ctx.bbl_line_num = 1,
                                  !.mod.buffer = TRUE])
           /\ pc' = [pc EXCEPT ![c] = "bstloop"]
           /\ UNCHANGED res
    /\ UNCHANGED <<engine, asked, caps, lock, runs, arg, hist, result>>

\* lib.rs:451-461
LastCheck(c) ==
    /\ pc[c] = "lastcheck"
    /\ LET r == last_check_for_aux_errors(Run(c))
       IN  IF r.ctx.bst_str = 0
           THEN /\ Commit(c, r)
                /\ res' = [res EXCEPT ![c] = "ErrNoBst"]
                /\ pc' = [pc EXCEPT ![c] = "matchres"]
           ELSE /\ Commit(c, [r EXCEPT !.ctx.bst_line_num = 0,
                                        !.ctx.bbl_line_num = 1,
                                        !.mod.buffer = TRUE])
                /\ pc' = [pc EXCEPT ![c] = "bstloop"]
                /\ UNCHANGED res
    /\ UNCHANGED <<engine, asked, caps, lock, runs, arg, hist, result>>

\* ---------------------------------------------------------------- style program
\* What one style command can do to the run: nothing worth a diagnostic, a
\* warning, an error the command recovers from, an error whose recovery runs
\* into the end of the style file (the recoverable abort), or a fatal condition.
BstEffects == {"ok", "warning", "error", "recover", "fatal"}

get_bst_command_and_process(r, effect) ==
    LET ran == [r EXCEPT !.work.bst_cmds = @ + 1,
                         !.ctx.bst_line_num = @ + 1,
                         !.mod.entries = TRUE, !.mod.global = TRUE, !.mod.other = TRUE]
    IN  CASE effect = "ok" -> [r |-> ran, ret |-> "Ok"]
          [] effect = "warning" ->
                [r |-> MarkWarning(write_logs(ran, "Warning--", NoName, 0)), ret |-> "Ok"]
          [] effect = "error" ->
                [r |-> MarkError(write_logs(ran, "---line of file", NoName, 0)), ret |-> "Ok"]
          [] effect = "recover" ->
                [r |-> MarkError(write_logs(ran, "---line of file", NoName, 0)),
                 ret |-> "ErrRecover"]
          [] effect = "fatal" -> [r |-> print_overflow(ran), ret |-> "ErrFatal"]

\* lib.rs:465-467 and 471: the style file is at its end.
BstEof(c) ==
    /\ pc[c] = "bstloop"
    /\ res' = [res EXCEPT ![c] = "OkSpotless"]
    /\ pc' = [pc EXCEPT ![c] = "matchres"]
    /\ UNCHANGED <<engine, asked, caps, lock, runs, arg, ctx, bridge, out, hist, result, work, mod>>

\* lib.rs:468
BstCommand(c) ==
    /\ pc[c] = "bstloop"
    /\ work[c].bst_cmds < MaxBstCmds
    /\ \E effect \in BstEffects :
          LET g == get_bst_command_and_process(Run(c), effect)
          IN  /\ Commit(c, g.r)
              /\ IF g.ret = "Ok"
                 THEN UNCHANGED <<pc, res>>
                 ELSE /\ res' = [res EXCEPT ![c] = g.ret]
                      /\ pc' = [pc EXCEPT ![c] = "matchres"]
    /\ UNCHANGED <<engine, asked, caps, lock, runs, arg, hist, result>>

\* ---------------------------------------------------------------- bibtex_main
\* Closing a handle: a null handle is left alone.
peekable_close(r) ==
    IF r.ctx.bst_file
    THEN [r EXCEPT !.bridge.bst = "closed", !.bridge.bst_closes = @ + 1]
    ELSE r

ttbc_output_close_bbl(r) ==
    IF r.ctx.bbl_file
    THEN [r EXCEPT !.bridge.bbl = "closed", !.bridge.bbl_closes = @ + 1]
    ELSE r

bib_close_log(r) ==
    IF r.mod.log.log_file
    THEN [r EXCEPT !.mod.log.log_file = FALSE,
                   !.bridge.log = "closed", !.bridge.log_closes = @ + 1]
    ELSE r

\* bibtex_main with the NoBst arm left empty: the result file stays open.
match_res_nobst_leaves_bbl(r, inner) ==
    CASE inner = "OkSpotless" -> [r |-> r, return |-> "none"]
      [] inner = "OkFatal" -> [r |-> r, return |-> FatalError]
      [] inner = "ErrRecover" ->
            [r |-> ttbc_output_close_bbl([peekable_close(r) EXCEPT !.ctx.bst_file = FALSE]),
             return |-> "none"]
      [] inner = "ErrNoBst" -> [r |-> r, return |-> "none"]
      [] inner = "ErrFatal" -> [r |-> r, return |-> "none"]

\* bibtex_main with the Recover arm not clearing the stored style handle.
match_res_recover_keeps_handle(r, inner) ==
    CASE inner = "OkSpotless" -> [r |-> r, return |-> "none"]
      [] inner = "OkFatal" -> [r |-> r, return |-> FatalError]
      [] inner = "ErrRecover" ->
            [r |-> ttbc_output_close_bbl(peekable_close(r)), return |-> "none"]
      [] inner = "ErrNoBst" -> [r |-> ttbc_output_close_bbl(r), return |-> "none"]
      [] inner = "ErrFatal" -> [r |-> r, return |-> "none"]

\* bibtex_main with Ok(hist) treated like Ok(Spotless): the run goes on to the
\* summary and returns the module's history.
match_res_ok_falls_through(r, inner) ==
    CASE inner = "OkSpotless" -> [r |-> r, return |-> "none"]
      [] inner = "OkFatal" -> [r |-> r, return |-> "none"]
      [] inner = "ErrRecover" ->
            [r |-> ttbc_output_close_bbl([peekable_close(r) EXCEPT !.ctx.bst_file = FALSE]),
             return |-> "none"]
      [] inner = "ErrNoBst" -> [r |-> ttbc_output_close_bbl(r), return |-> "none"]
      [] inner = "ErrFatal" -> [r |-> r, return |-> "none"]

\* lib.rs:363-378: what bibtex_main does with the result of inner_bibtex_main.
\* "return" is set when the result is returned at once.
match_res(r, inner) ==
    CASE inner = "OkSpotless" -> [r |-> r, return |-> "none"]
      [] inner = "OkFatal" -> [r |-> r, return |-> FatalError]
      [] inner = "ErrRecover" ->
            [r |-> ttbc_output_close_bbl([peekable_close(r) EXCEPT !.ctx.bst_file = FALSE]),
             return |-> "none"]
      [] inner = "ErrNoBst" -> [r |-> ttbc_output_close_bbl(r), return |-> "none"]
      [] inner = "ErrFatal" -> [r |-> r, return |-> "none"]

MatchRes(c) ==
    /\ pc[c] = "matchres"
    /\ LET m == match_res(Run(c), res[c])
       IN  /\ Commit(c, m.r)
           /\ IF m.return = "none"
              THEN /\ pc' = [pc EXCEPT ![c] = "summary"]
                   /\ UNCHANGED hist
              ELSE /\ pc' = [pc EXCEPT ![c] = "outcome"]
                   /\ hist' = [hist EXCEPT ![c] = m.return]
    /\ UNCHANGED <<engine, asked, caps, lock, runs, arg, res, result>>

\* The summary with the singular phrasing never chosen.
summary_always_plural(r) ==
    CASE get_history(r) = Spotless -> r
      [] get_history(r) = WarningIssued ->
            write_logs(r, "(There were {} warnings)", NoName, err_count(r))
      [] get_history(r) = ErrorIssued ->
            write_logs(r, "(There were {} error messages)", NoName, err_count(r))
      [] get_history(r) = FatalError ->
            write_logs(r, "(That was a fatal error)", NoName, 0)

\* lib.rs:380-399
summary(r) ==
    CASE get_history(r) = Spotless -> r
      [] get_history(r) = WarningIssued ->
            IF err_count(r) = 1
            THEN write_logs(r, "(There was 1 warning)", NoName, 1)
            ELSE write_logs(r, "(There were {} warnings)", NoName, err_count(r))
      [] get_history(r) = ErrorIssued ->
            IF err_count(r) = 1
            THEN write_logs(r, "(There was 1 error message)", NoName, 1)
            ELSE write_logs(r, "(There were {} error messages)", NoName, err_count(r))
      [] get_history(r) = FatalError ->
            write_logs(r, "(That was a fatal error)", NoName, 0)

\* lib.rs:380-402
Summary(c) ==
    /\ pc[c] = "summary"
    /\ LET r == bib_close_log(summary(Run(c)))
       IN  /\ Commit(c, r)
           /\ hist' = [hist EXCEPT ![c] = get_history(r)]
    /\ pc' = [pc EXCEPT ![c] = "outcome"]
    /\ UNCHANGED <<engine, asked, caps, lock, runs, arg, res, result>>

\* lib.rs:149-155: the history becomes the result, the closure ends (the
\* context is dropped) and the lock is released.
ProcessReturn(c) ==
    /\ pc[c] = "outcome"
    /\ result' = [result EXCEPT ![c] = OutcomeOf(hist[c])]
    /\ lock' = IF lock = c THEN 0 ELSE lock
    /\ pc' = [pc EXCEPT ![c] = "returned"]
    /\ ctx' = [ctx EXCEPT ![c] = BibtexNew(BibtexConfigDefault)]
    /\ bridge' = [bridge EXCEPT ![c] = BridgeNew]
    /\ out' = [out EXCEPT ![c] = << >>]
    /\ work' = [work EXCEPT ![c] = WorkNew]
    /\ arg' = [arg EXCEPT ![c] = << >>]
    /\ res' = [res EXCEPT ![c] = "none"]
    /\ UNCHANGED <<engine, asked, caps, runs, hist, mod>>

Next ==
    \E c \in Callers :
        \/ ProcessEnter(c)
        \/ ResetAll(c)
        \/ InitStandardOutput(c)
        \/ Initialize(c)
        \/ Banner(c)
        \/ AuxEof(c)
        \/ AuxLine(c)
        \/ LastCheck(c)
        \/ BstEof(c)
        \/ BstCommand(c)
        \/ MatchRes(c)
        \/ Summary(c)
        \/ ProcessReturn(c)

\* Any number of callers, each with an engine left at its defaults.
Spec == Init /\ [][Next]_vars

\* One engine used by one caller, who reconfigures it between its runs.
EngineOwner == CHOOSE c \in Callers : \A d \in Callers : c <= d

NextEngine ==
    \/ MinCrossrefs(EngineOwner)
    \/ ProcessEnter(EngineOwner)
    \/ ResetAll(EngineOwner)
    \/ InitStandardOutput(EngineOwner)
    \/ Initialize(EngineOwner)
    \/ Banner(EngineOwner)
    \/ AuxEof(EngineOwner)
    \/ AuxLine(EngineOwner)
    \/ LastCheck(EngineOwner)
    \/ BstEof(EngineOwner)
    \/ BstCommand(EngineOwner)
    \/ MatchRes(EngineOwner)
    \/ Summary(EngineOwner)
    \/ ProcessReturn(EngineOwner)

SpecEngine == Init /\ [][NextEngine]_vars

\* ---------------------------------------------------------------- properties
\* The positions at which a caller is inside the closure of with_global_lock.
RunPcs == {"main", "stdout", "initialize", "banner", "auxloop", "lastcheck",
           "bstloop", "matchres", "summary", "outcome"}

FatalText == "(That was a fatal error)"
WarningTexts == {"(There was 1 warning)", "(There were {} warnings)"}
ErrorTexts == {"(There was 1 error message)", "(There were {} error messages)"}

IsCountLine(m) == m.text \in WarningTexts \cup ErrorTexts
IsFatalLine(m) == m.text = FatalText
IsEndLine(m) == IsCountLine(m) \/ IsFatalLine(m)

\* C1: the result of a run that took the lock is fixed by the history
\* bibtex_main returned: Spotless, WarningIssued and ErrorIssued give the Ok
\* outcomes Spotless, Warnings and Errors, of ranks 0 < 1 < 2, and FatalError
\* gives an Err.
C1_OutcomeFollowsHistory ==
    \A c \in Callers :
        (pc[c] = "returned" /\ hist[c] # "none") =>
            /\ hist[c] = Spotless =>
                    result[c] = [ok |-> TRUE, outcome |-> "Spotless", rank |-> 0]
            /\ hist[c] = WarningIssued =>
                    result[c] = [ok |-> TRUE, outcome |-> "Warnings", rank |-> 1]
            /\ hist[c] = ErrorIssued =>
                    result[c] = [ok |-> TRUE, outcome |-> "Errors", rank |-> 2]
            /\ hist[c] = FatalError => ~result[c].ok
            /\ result[c].ok => hist[c] \in {Spotless, WarningIssued, ErrorIssued}

C1_Witness ==
    \E c, d \in Callers :
        /\ pc[c] = "returned" /\ hist[c] = WarningIssued /\ result[c].outcome = "Warnings"
        /\ pc[d] = "returned" /\ hist[d] = FatalError /\ ~result[d].ok

\* C2: a caller that is anywhere between the state reset and the return of
\* its outcome holds the global lock, and no other caller is inside a run.
C2_OneRunAtATime ==
    \A c \in Callers :
        pc[c] \in RunPcs =>
            /\ lock = c
            /\ \A d \in Callers \ {c} : pc[d] \notin RunPcs

C2_Witness ==
    \E c, d \in Callers :
        /\ c # d
        /\ pc[c] = "bstloop" /\ lock = c
        /\ pc[d] \in {"idle", "returned"} /\ runs < MaxRuns

\* C3: a run has done nothing before its reset; right after the reset every
\* piece of module state is at its default, whatever the earlier runs left;
\* and from then on the module's history is the one this run's own
\* diagnostics produce from a clean start.
C3_EveryRunStartsClean ==
    \A c \in Callers :
        /\ pc[c] = "main" =>
                (~work[c].reset /\ out[c] = << >> /\ bridge[c] = BridgeNew
                 /\ work[c].marks = HistDefault)
        /\ pc[c] = "stdout" => mod = ModDefault
        /\ pc[c] \in RunPcs \ {"main"} =>
                (work[c].reset /\ mod.history = work[c].marks)

C3_Witness ==
    \E c, d \in Callers :
        /\ c # d
        /\ pc[d] = "returned" /\ hist[d] = FatalError
        /\ pc[c] = "outcome" /\ hist[c] = Spotless /\ runs = 2

\* C4: a run that returns FatalError has written the fatal-error message and
\* no warning or error count.
C4_FatalRunSaysSo ==
    \A c \in Callers :
        (pc[c] = "outcome" /\ hist[c] = FatalError) =>
            /\ Len(SelectSeq(out[c], IsFatalLine)) >= 1
            /\ Len(SelectSeq(out[c], IsCountLine)) = 0

\* C5: a run that returns Spotless has written no summary line; one that
\* returns WarningIssued (ErrorIssued) has written exactly one, as its last
\* message: the warning (error) line, singular exactly when this run's count
\* is 1 and otherwise plural with the count.
C5_SummaryLine ==
    \A c \in Callers :
        (pc[c] = "outcome" /\ hist[c] # FatalError) =>
            LET lines == SelectSeq(out[c], IsEndLine)
                n == work[c].marks.err_count
            IN  /\ hist[c] = Spotless => lines = << >>
                /\ hist[c] = WarningIssued =>
                        /\ Len(lines) = 1
                        /\ lines[1] = out[c][Len(out[c])]
                        /\ lines[1].text = IF n = 1 THEN "(There was 1 warning)"
                                                   ELSE "(There were {} warnings)"
                        /\ lines[1].n = n
                /\ hist[c] = ErrorIssued =>
                        /\ Len(lines) = 1
                        /\ lines[1] = out[c][Len(out[c])]
                        /\ lines[1].text = IF n = 1 THEN "(There was 1 error message)"
                                                   ELSE "(There were {} error messages)"
                        /\ lines[1].n = n

C5_Witness ==
    \E c \in Callers :
        /\ pc[c] = "outcome" /\ hist[c] = WarningIssued
        /\ work[c].marks.err_count = 1
        /\ out[c][Len(out[c])].text = "(There was 1 warning)"

\* C6: when the final citation-list check has run and bst_str is 0, no style
\* command is processed, no style input is closed, the result file is closed
\* exactly once, and the run goes on to the summary.
C6_NoStyleFile ==
    \A c \in Callers :
        res[c] = "ErrNoBst" =>
            /\ pc[c] \in {"matchres", "summary", "outcome"}
            /\ ctx[c].bst_str = 0
            /\ work[c].bst_cmds = 0
            /\ bridge[c].bst_closes = 0
            /\ pc[c] = "matchres" => (bridge[c].bbl = "open" /\ bridge[c].bbl_closes = 0)
            /\ pc[c] # "matchres" => (bridge[c].bbl = "closed" /\ bridge[c].bbl_closes = 1)
            /\ pc[c] # "outcome" => SelectSeq(out[c], IsEndLine) = << >>
            /\ pc[c] = "outcome" => Len(SelectSeq(out[c], IsEndLine)) = 1

C6_Witness ==
    \E c \in Callers :
        /\ pc[c] = "outcome" /\ res[c] = "ErrNoBst"
        /\ bridge[c].bbl_closes = 1 /\ work[c].lines > 0

\* C7: when a run is aborted with Recover, the style input and the result file
\* are open; before the summary is written each has been closed exactly once
\* and the stored style handle is cleared.
C7_RecoverClosesBoth ==
    \A c \in Callers :
        res[c] = "ErrRecover" =>
            /\ pc[c] \in {"matchres", "summary", "outcome"}
            /\ pc[c] = "matchres" =>
                    /\ ctx[c].bst_file /\ bridge[c].bst = "open" /\ bridge[c].bst_closes = 0
                    /\ ctx[c].bbl_file /\ bridge[c].bbl = "open" /\ bridge[c].bbl_closes = 0
            /\ pc[c] # "matchres" =>
                    /\ ~ctx[c].bst_file
                    /\ bridge[c].bst = "closed" /\ bridge[c].bst_closes = 1
                    /\ bridge[c].bbl = "closed" /\ bridge[c].bbl_closes = 1
            /\ pc[c] # "outcome" => SelectSeq(out[c], IsEndLine) = << >>

C7_Witness ==
    \E c \in Callers :
        /\ pc[c] = "outcome" /\ res[c] = "ErrRecover"
        /\ bridge[c].bst_closes = 1 /\ bridge[c].bbl_closes = 1

\* C8: a run aborted by Fatal after the result file was opened has closed the
\* result file when bibtex_main returns.
C8_FatalClosesResultFile ==
    \A c \in Callers :
        (pc[c] = "outcome" /\ res[c] = "ErrFatal" /\ bridge[c].bbl # "unopened") =>
            bridge[c].bbl = "closed"

\* C9: when one of the three opens of the initialization fails, the name of
\* the file that failed is the last thing reported, the files after it were
\* never opened, no citation-list line and no style command is processed, and
\* bibtex_main returns FatalError without passing through the summary.
C9_OpenFailureEndsRun ==
    \A c \in Callers :
        (res[c] = "OkFatal" /\ bridge[c].tried # << >>) =>
            LET t == bridge[c].tried
                k == Len(t)
                order == <<arg[c], set_extension(arg[c], DotBlg), set_extension(arg[c], DotBbl)>>
            IN  /\ t = SubSeq(order, 1, k)
                /\ out[c] # << >>
                /\ out[c][Len(out[c])].text = "I couldn't open file name"
                /\ out[c][Len(out[c])].name = order[k]
                /\ k = 1 => bridge[c].aux_open = 0
                /\ k <= 2 => bridge[c].log = "unopened"
                /\ bridge[c].bbl = "unopened"
                /\ ~ctx[c].bbl_file
                /\ work[c].lines = 0 /\ work[c].aux_cmds = 0 /\ work[c].bst_cmds = 0
                /\ pc[c] \in {"matchres", "outcome"}
                /\ pc[c] = "outcome" => hist[c] = FatalError

C9_Witness ==
    \E c \in Callers :
        /\ pc[c] = "outcome" /\ res[c] = "OkFatal" /\ hist[c] = FatalError
        /\ Len(bridge[c].tried) = 2 /\ bridge[c].bbl = "unopened"

C11_RunUsesEngineConfig ==
    \A c \in Callers :
        LET expected == [min_crossrefs |-> IF asked[c].set THEN asked[c].value ELSE 2,
                         verbose |-> FALSE]
        IN  /\ engine[c].config = expected
            /\ pc[c] \in RunPcs => ctx[c].config = expected

C11_Witness ==
    \E c \in Callers :
        /\ pc[c] = "bstloop" /\ runs = 2
        /\ asked[c].set /\ asked[c].value = 3 /\ ctx[c].config.min_crossrefs = 3

\* C12: a run that inner_bibtex_main aborted with Fatal returns FatalError from
\* bibtex_main, and the step that hands its result to the caller hands over an
\* Err, never one of the three Ok outcomes.
C12_FatalAbortIsHardFailure ==
    [][\A c \in Callers :
          (pc[c] = "outcome" /\ res[c] = "ErrFatal" /\ pc'[c] = "returned") =>
              /\ hist[c] = FatalError
              /\ ~result'[c].ok
              /\ result'[c] \notin {OkSpotless, OkWarnings, OkErrors}]_vars

C12_Witness ==
    \E c \in Callers :
        /\ pc[c] = "outcome" /\ res[c] = "ErrFatal"
        /\ bridge[c].bbl = "open" /\ work[c].lines = 0 /\ hist[c] = FatalError

\* C13: a run whose style processing reached the end of the style program has
\* closed the result file exactly once when bibtex_main returns.
C13_SuccessClosesResultFile ==
    \A c \in Callers :
        (pc[c] = "outcome" /\ res[c] = "OkSpotless") =>
            (bridge[c].bbl = "closed" /\ bridge[c].bbl_closes = 1)

\* C14: when the initialization fails at the log file or at the result file,
\* no handle the run opened (the top-level citation-list input, the log file)
\* is open when bibtex_main returns.
C14_InitFailureLeavesNothingOpen ==
    \A c \in Callers :
        (pc[c] = "outcome" /\ res[c] = "OkFatal" /\ Len(bridge[c].tried) >= 2) =>
            /\ bridge[c].aux_open = 0
            /\ bridge[c].log # "open"
            /\ bridge[c].bbl # "open"
            /\ bridge[c].bst # "open"

\* C15: the phases of a run are strictly ordered.  A citation-list command has
\* been processed only in a run whose initialization succeeded (the three files
\* opened and the top-level name interned); a style command is processed, and
\* the style loop entered, only with the citation-list stack empty and every
\* citation-list input closed, the last check done and a style file recorded
\* and opened; and from the start of the style processing on, no further
\* citation-list line is read in that run.
C15_StyleAfterCitationList ==
    \A c \in Callers :
        /\ work[c].aux_cmds > 0 =>
              /\ Len(bridge[c].tried) = 3
              /\ bridge[c].log # "unopened"
              /\ bridge[c].bbl # "unopened"
              /\ \E e \in mod.hash :
                    e.str = set_extension(arg[c], DotAux) /\ e.ilk = "AuxFile"
        /\ (pc[c] = "bstloop" \/ work[c].bst_cmds > 0) =>
              /\ mod.auxi.files = << >>
              /\ bridge[c].aux_open = 0
              /\ bridge[c].aux_closes >= 1
              /\ ctx[c].bbl_line_num = 1
              /\ ctx[c].bst_str # 0
              /\ bridge[c].bst # "unopened"

C15_NoLineAfterStyleStart ==
    \A c \in Callers :
        ((pc[c] = "bstloop" \/ work[c].bst_cmds > 0) /\ pc'[c] \in RunPcs) =>
            /\ work'[c].lines = work[c].lines
            /\ work'[c].aux_cmds = work[c].aux_cmds

C15_PhasesInOrder == []C15_StyleAfterCitationList /\ [][C15_NoLineAfterStyleStart]_vars

C15_Witness ==
    \E c \in Callers :
        /\ pc[c] = "bstloop"
        /\ work[c].bst_cmds = 1
        /\ work[c].aux_cmds >= 2
        /\ bridge[c].aux_closes = 2

RECURSIVE TotalLen(_)
TotalLen(strs) == IF strs = << >> THEN 0 ELSE Len(Head(strs)) + TotalLen(Tail(strs))

InitializedPcs == {"banner", "auxloop", "lastcheck", "bstloop"}

AlreadyEncountered == "Already encountered auxiliary file"

\* C17: the top-level citation-list name is interned under the citation-list
\* ilk once per run, after the reset and the built-in strings: right after a
\* successful initialization the table holds every built-in string and exactly
\* one citation-list entry, the top-level name, whose id the file stack records.
\* The lookup never reports the name as existing, so no run prints "Already
\* encountered auxiliary file", whichever names earlier runs used and also when
\* the name has the bytes of a built-in string.
C17_TopLevelNameIsNew ==
    \A c \in Callers :
        /\ pc[c] \in RunPcs => \A i \in 1..Len(out[c]) : out[c][i].text # AlreadyEncountered
        /\ pc[c] = "banner" =>
              /\ \A i \in 1..Len(PreDefs) :
                    \E e \in mod.hash : e.str = PreDefs[i].str /\ e.ilk = PreDefs[i].ilk
              /\ \E e \in mod.hash :
                    /\ {f \in mod.hash : f.ilk = "AuxFile"} = {e}
                    /\ e.str = set_extension(arg[c], DotAux)
                    /\ mod.auxi.files = <<[at |-> e.text, ln |-> 0]>>

C17_Witness ==
    \E c \in Callers :
        /\ runs = 2
        /\ pc[c] = "banner"
        /\ arg[c] = DotAux
        /\ mod.auxi.files[1].at = 1
        /\ Cardinality(mod.hash) = Len(PreDefs) + 1
====
